---- MODULE Spec2Model ----
(***************************************************************************)
(* vce (Visual Code Editor), src/vce.c: a gap-buffer text editor.          *)
(*                                                                         *)
(* The model is the __unix__ + ANSI build.  Pointers into the arena are    *)
(* modelled as indices relative to buf, so buf is address 0 and ebuf is    *)
(* address BUF.  mem is the whole arena, gap bytes included: movegap and   *)
(* insert leave stale bytes in the gap and get_lineno reads the arena by   *)
(* physical index.  The geometry is the build -DCOL_MAX=17 -DROW_MAX=3, a   *)
(* width main accepts (16 <= COL_MAX) that is not a multiple of the tab    *)
(* stop; the arena is scaled down to BUF bytes.                            *)
(*                                                                         *)
(* The array screen is write-only for the program: update_display fills it *)
(* from scratch and hands it to write(2).  It is no variable here; Render  *)
(* lists the stores into it and Screen is the grid of the latest frame.    *)
(***************************************************************************)
EXTENDS Integers, Sequences, FiniteSets, TLC

\* ---------------------------------------------------------------- sizes
\* The arena size (src/vce.c:38, 8 MiB in the unix build), scaled down.
BUF == 3

\* Display geometry (#ifndef COL_MAX / ROW_MAX, src/vce.c:54-60).
COL_MAX == 17
ROW_MAX == 3

\* ---------------------------------------------------------------- bytes
NUL == 0
BS == 8
TAB == 9
NL == 10
CR == 13
ESC == 27
DEL == 127
LetterA == 97

\* Control keys of the main loop's switch.
CtrlD == 4
CtrlE == 5
CtrlL == 12
CtrlS == 19
CtrlX == 24

\* Second and third bytes of the escape sequences.
LBracket == 91
ArrowA == 65
ArrowB == 66
ArrowC == 67
ArrowD == 68
KeyQ == 113
KeyS == 115
KeyV == 118

\* Bytes a loaded file may hold, and bytes the default: case may get.
FileBytes == {LetterA, NL, TAB}
InsertKeys == {LetterA, NL, TAB, CR, BS, DEL}

VARIABLES
    mem,        \* the arena buf[0 .. ebuf - 1], gap bytes included
    ebuf,       \* ebuf - buf: the arena size init_buf set
    gap, egap,  \* gap - buf and egap - buf
    idx,        \* the cursor, a logical offset
    page, epage,\* first offset displayed, offset where the last render stopped
    row, col,   \* the cursor cell recorded by the last render
    line,       \* the line number get_lineno computed
    dirty,      \* static int dirty
    filename,   \* "" models NULL
    modeline,   \* what the mode line shows: "status" or a message() text
    written,    \* the bytes save_file gave write() since update_display
    key,        \* the bytes main's fgetc calls returned since update_display
    pre,        \* history: the document, cursor and gap the latest command found
    rt,         \* history: an insert at o and the delete at o + 1 after it
    pc          \* "display": about to call update_display; "input": about
                \* to read a key; "done": the loop has ended

vars == <<mem, ebuf, gap, egap, idx, page, epage, row, col, line, dirty, filename,
          modeline, written, key, pre, rt, pc>>

\* ------------------------------------------------------------ addressing
\* ptr(): logical offset -> address, for a gap at [g, e).
\* (Mutant: the test against gap is <= instead of <.)
ptrOffByOne(offset, g, e) ==
    IF offset < 0 THEN 0
    ELSE offset + (IF offset <= g THEN 0 ELSE e - g)

ptr(offset, g, e) ==
    IF offset < 0 THEN 0
    ELSE offset + (IF offset < g THEN 0 ELSE e - g)

\* pos(): address -> logical offset.
pos(pointer, g, e) ==
    pointer - (IF pointer < e THEN 0 ELSE e - g)

\* The document: the live prefix followed by the live suffix.
DocOf(m, g, e) ==
    [i \in 1..(g + (ebuf - e)) |-> m[ptr(i - 1, g, e)]]

Doc == DocOf(mem, gap, egap)
DocLen == gap + (ebuf - egap)

\* ---------------------------------------------------------- movegap()
\* while (p < gap) *--egap = *--gap;
RECURSIVE GapDown(_, _, _, _)
GapDown(m, g, e, p) ==
    IF p < g
    THEN GapDown([m EXCEPT ![e - 1] = m[g - 1]], g - 1, e - 1, p)
    ELSE [mem |-> m, gap |-> g, egap |-> e]

\* (Mutant: the loop advances both pointers and copies nothing.)
RECURSIVE GapUpNoCopy(_, _, _, _)
GapUpNoCopy(m, g, e, p) ==
    IF e < p
    THEN GapUpNoCopy(m, g + 1, e + 1, p)
    ELSE [mem |-> m, gap |-> g, egap |-> e]

\* while (egap < p) *gap++ = *egap++;
RECURSIVE GapUp(_, _, _, _)
GapUp(m, g, e, p) ==
    IF e < p
    THEN GapUp([m EXCEPT ![g] = m[e]], g + 1, e + 1, p)
    ELSE [mem |-> m, gap |-> g, egap |-> e]

\* (Mutant: the second loop, which moves the gap forward, is missing.)
movegapBackOnly(m, g, e, i) ==
    LET p == ptr(i, g, e)
        d == GapDown(m, g, e, p)
    IN  [mem |-> d.mem, gap |-> d.gap, egap |-> d.egap,
         idx |-> pos(d.egap, d.gap, d.egap)]

movegap(m, g, e, i) ==
    LET p == ptr(i, g, e)
        d == GapDown(m, g, e, p)
        u == GapUp(d.mem, d.gap, d.egap, p)
    IN  [mem |-> u.mem, gap |-> u.gap, egap |-> u.egap,
         idx |-> pos(u.egap, u.gap, u.egap)]


\* ---------------------------------------------------------- navigation
\* prevline(): while (buf < (p = ptr(--offset)) && *p != '\n');
RECURSIVE prevline(_, _, _, _)
prevline(m, g, e, offset) ==
    LET o == offset - 1
        p == ptr(o, g, e)
    IN  IF 0 < p /\ m[p] # NL
        THEN prevline(m, g, e, o)
        ELSE IF 0 < p THEN o + 1 ELSE 0

\* nextline(): while ((p = ptr(offset++)) < ebuf && *p != '\n');
RECURSIVE nextline(_, _, _, _)
nextline(m, g, e, offset) ==
    LET p == ptr(offset, g, e)
    IN  IF p < ebuf /\ m[p] # NL
        THEN nextline(m, g, e, offset + 1)
        ELSE IF p < ebuf THEN offset + 1 ELSE pos(ebuf, g, e)

\* (Mutant: a tab advances the counter by 8, not to the next multiple of 8.)
RECURSIVE AdjustLoopFlatTab(_, _, _, _, _, _)
AdjustLoopFlatTab(m, g, e, offset, column, i) ==
    LET p == ptr(offset, g, e)
    IN  IF p < ebuf /\ m[p] # NL /\ i < column
        THEN AdjustLoopFlatTab(m, g, e, offset + 1, column,
                               i + (IF m[p] = TAB THEN 8 ELSE 1))
        ELSE offset

\* The loop of adjust(), i being its column counter.
RECURSIVE AdjustLoop(_, _, _, _, _, _)
AdjustLoop(m, g, e, offset, column, i) ==
    LET p == ptr(offset, g, e)
    IN  IF p < ebuf /\ m[p] # NL /\ i < column
        THEN AdjustLoop(m, g, e, offset + 1, column,
                        i + (IF m[p] = TAB THEN 8 - (i % 8) ELSE 1))
        ELSE offset

adjust(m, g, e, offset, column) == AdjustLoop(m, g, e, offset, column, 0)

\* (Mutant: no test against the document start.)
leftNoClamp(i) == i - 1

left(i) == IF 0 < i THEN i - 1 ELSE i

\* (Mutant: no test against the document end.)
rightNoClamp(g, e, i) == i + 1

right(g, e, i) == IF i < pos(ebuf, g, e) THEN i + 1 ELSE i

up(m, g, e, i, c) ==
    adjust(m, g, e, prevline(m, g, e, prevline(m, g, e, i) - 1), c)

\* (Mutant: the column is not resolved on the following line.)
downNoAdjust(m, g, e, i, c) == nextline(m, g, e, i)

down(m, g, e, i, c) == adjust(m, g, e, nextline(m, g, e, i), c)

\* -------------------------------------------------------------- insert()
\* (Mutant: a carriage return is stored as it is.)
StoredRaw(ch) == ch

\* The byte insert() stores for ch.
Stored(ch) == IF ch = CR THEN NL ELSE ch

\* (Mutant: the store is not guarded by gap < egap.)
insertNoCheck(m, g, e, i, ch) ==
    LET mv == movegap(m, g, e, i)
        r  == IF ch = BS \/ ch = DEL
              THEN IF 0 < mv.gap
                   THEN [mem |-> mv.mem, gap |-> mv.gap - 1]
                   ELSE [mem |-> mv.mem, gap |-> mv.gap]
              ELSE [mem |-> IF mv.gap < ebuf
                            THEN [mv.mem EXCEPT ![mv.gap] = Stored(ch)]
                            ELSE mv.mem,
                    gap |-> mv.gap + 1]
    IN  [mem |-> r.mem, gap |-> r.gap, egap |-> mv.egap,
         idx |-> pos(mv.egap, r.gap, mv.egap)]

insert(m, g, e, i, ch) ==
    LET mv == movegap(m, g, e, i)
        r  == IF ch = BS \/ ch = DEL
              THEN IF 0 < mv.gap
                   THEN [mem |-> mv.mem, gap |-> mv.gap - 1]
                   ELSE [mem |-> mv.mem, gap |-> mv.gap]
              ELSE IF mv.gap < mv.egap
                   THEN [mem |-> [mv.mem EXCEPT ![mv.gap] = Stored(ch)],
                         gap |-> mv.gap + 1]
                   ELSE [mem |-> mv.mem, gap |-> mv.gap]
    IN  [mem |-> r.mem, gap |-> r.gap, egap |-> mv.egap,
         idx |-> pos(mv.egap, r.gap, mv.egap)]

\* ------------------------------------------------------ update_display()
Space == 32
ScreenCells == 0..((ROW_MAX - 1) * COL_MAX - 1)
Blank == [x \in ScreenCells |-> Space]

\* screen[i][j], ..., screen[i][j + n - 1] = c, in the row-major layout of
\* the array.  A cell past the end of the array is no cell of screen.
RECURSIVE Put(_, _, _, _, _)
Put(scr, i, j, n, c) ==
    IF n <= 0 THEN scr
    ELSE Put(IF i * COL_MAX + j \in ScreenCells
             THEN [scr EXCEPT ![i * COL_MAX + j] = c]
             ELSE scr,
             i, j + 1, n - 1, c)

\* if (idx < page) ...; if (epage <= idx) { ... }: the page the frame shows.
RECURSIVE WalkBack(_, _, _, _, _)
WalkBack(m, g, e, pg, i) ==
    IF 0 < i
    THEN WalkBack(m, g, e, prevline(m, g, e, pg - 1), i - 1)
    ELSE pg

Repage(m, g, e, ix, pg, ep) ==
    LET p1 == IF ix < pg THEN prevline(m, g, e, ix) ELSE pg
    IN  IF ep <= ix
        THEN LET p2 == nextline(m, g, e, ix)
                 n  == IF p2 = pos(ebuf, g, e) THEN ROW_MAX - 3 ELSE ROW_MAX - 1
             IN  WalkBack(m, g, e, p2, n)
        ELSE p1

\* Cells the byte ch takes when drawn at column j.
Width(ch, j) ==
    IF ch = CR THEN 0 ELSE IF ch = TAB THEN 8 - (j % 8) ELSE 1

\* What is stored in those cells.
Glyph(ch) == IF ch = NL \/ ch = TAB THEN Space ELSE ch

\* The while (1) loop: i, j the running cell, ep the running offset, r, c the
\* cursor cell recorded so far, w the stores into screen so far, each as
\* <<row, column, count, byte>>.
RECURSIVE Render(_, _, _, _, _, _, _, _, _, _)
Render(m, g, e, ix, i, j, ep, r, c, w) ==
    LET r1 == IF ix = ep THEN i ELSE r
        c1 == IF ix = ep THEN j ELSE c
        p  == ptr(ep, g, e)
    IN  IF ROW_MAX - 1 <= i \/ ebuf <= p
        THEN [epage |-> ep, row |-> r1, col |-> c1, writes |-> w]
        ELSE LET ch   == m[p]
                 j1   == j + Width(ch, j)
                 w1   == IF 0 < Width(ch, j)
                         THEN Append(w, <<i, j, Width(ch, j), Glyph(ch)>>)
                         ELSE w
                 wrap == ch = NL \/ COL_MAX <= j1
             IN  Render(m, g, e, ix,
                        IF wrap THEN i + 1 ELSE i,
                        IF wrap THEN 0 ELSE j1,
                        ep + 1, r1, c1, w1)

\* The grid after the stores w, applied in order to the blanked grid.
RECURSIVE Paint(_, _)
Paint(scr, w) ==
    IF w = << >> THEN scr
    ELSE Paint(Put(scr, w[1][1], w[1][2], w[1][3], w[1][4]), Tail(w))

\* get_lineno(): counts newlines in buf[0 .. idx - 1], by arena index.
get_lineno(m, ix) == 1 + Cardinality({i \in 0..(ix - 1) : m[i] = NL})

\* update_modeline(): with COL_MAX <= 34 the line is "VCE: " and the file
\* name; the model keeps what follows "VCE: ".
update_modeline(fn) == fn

\* The grid the latest update_display() drew; it is drawn from page, and the
\* arena and the cursor are the same until the next command (pc = "input").
Screen ==
    Paint(Blank, Render(mem, gap, egap, idx, 0, 0, page, row, col, << >>).writes)

update_display(m, g, e, ix, pg, ep, r, c, fn) ==
    LET pg1 == Repage(m, g, e, ix, pg, ep)
        f   == Render(m, g, e, ix, 0, 0, pg1, r, c, << >>)
    IN  [page |-> pg1, epage |-> f.epage, row |-> f.row, col |-> f.col,
         writes |-> f.writes, line |-> get_lineno(m, ix),
         modeline |-> update_modeline(fn)]

\* ------------------------------------------------------------ save_file()
FileName == "f"

\* (Mutant: the gap is not moved to the document start before the write.)
save_fileNoMove(m, g, e, ix, d, fn, typed, opened) ==
    LET fn1 == IF fn = "" THEN typed ELSE fn
    IN  IF fn1 = ""
        THEN [mem |-> m, gap |-> g, egap |-> e, idx |-> ix, dirty |-> d,
              filename |-> fn1, written |-> << >>,
              modeline |-> "no filename"]
        ELSE IF ~opened
        THEN [mem |-> m, gap |-> g, egap |-> e, idx |-> ix, dirty |-> d,
              filename |-> fn1, written |-> << >>,
              modeline |-> "failed open"]
        ELSE [mem |-> m, gap |-> g, egap |-> e, idx |-> ix,
              dirty |-> 0, filename |-> fn1,
              written |-> [k \in 1..(ebuf - e) |-> m[e + k - 1]],
              modeline |-> "save ok"]

\* typed is what get_name() returns when no file name is set yet ("" for
\* NULL), opened tells whether open() succeeded.
save_file(m, g, e, ix, d, fn, typed, opened) ==
    LET fn1 == IF fn = "" THEN typed ELSE fn
        mv  == movegap(m, g, e, 0)
    IN  IF fn1 = ""
        THEN [mem |-> m, gap |-> g, egap |-> e, idx |-> ix, dirty |-> d,
              filename |-> fn1, written |-> << >>,
              modeline |-> "no filename"]
        ELSE IF ~opened
        THEN [mem |-> m, gap |-> g, egap |-> e, idx |-> ix, dirty |-> d,
              filename |-> fn1, written |-> << >>,
              modeline |-> "failed open"]
        ELSE [mem |-> mv.mem, gap |-> mv.gap, egap |-> mv.egap, idx |-> ix,
              dirty |-> 0, filename |-> fn1,
              written |-> [k \in 1..(ebuf - mv.egap) |-> mv.mem[mv.egap + k - 1]],
              modeline |-> "save ok"]

\* ------------------------------------------------------------------ main()
\* The files main may load into an arena of n bytes: read(fd, buf, BUF)
\* takes at most BUF bytes.
Files(n) == UNION {[1..k -> FileBytes] : k \in 0..n}

NoSnap == [doc |-> << >>, idx |-> -1, gap |-> -1]
Snap == [doc |-> Doc, idx |-> idx, gap |-> gap]
NoTrip == [phase |-> "none", doc |-> << >>, idx |-> -1]

\* init_buf() for an arena of n bytes, the load of argv[1] and idx = 0.
\* filename = "" is argc = 1.  A failed open and a failed or empty read
\* leave the empty document, as the empty file does.
InitWith(n) ==
    /\ filename \in {"", FileName}
    /\ \E f \in Files(n) :
          /\ filename = "" => f = << >>
          /\ mem = [i \in 0..(n - 1) |-> IF i < Len(f) THEN f[i + 1] ELSE NUL]
          /\ gap = Len(f)
    /\ ebuf = n
    /\ egap = n
    /\ idx = 0
    /\ page = 0
    /\ epage = 0
    /\ row = 1
    /\ col = 0
    /\ line = 1
    /\ dirty = 0
    /\ modeline = ""
    /\ written = << >>
    /\ key = << >>
    /\ pre = NoSnap
    /\ rt = NoTrip
    /\ pc = "display"

Init == InitWith(BUF)

\* The update_display() call at the top of the loop.
UpdateDisplay ==
    /\ pc = "display"
    /\ LET d == update_display(mem, gap, egap, idx, page, epage, row, col,
                               filename)
       IN  /\ page' = d.page
           /\ epage' = d.epage
           /\ row' = d.row
           /\ col' = d.col
           /\ line' = d.line
           /\ modeline' = d.modeline
    /\ key' = << >>
    /\ written' = << >>
    /\ pre' = NoSnap
    /\ pc' = "input"
    /\ UNCHANGED <<mem, ebuf, gap, egap, idx, dirty, filename, rt>>

\* What every command does to the history variables key and pre, and to pc.
Command(k) ==
    /\ pc = "input"
    /\ key' = k
    /\ pre' = Snap
    /\ pc' = "display"

\* The history of a round trip.  An insert of a byte other than backspace
\* and DEL at offset o records the document and o; moves left and right keep
\* the record; a delete issued at offset o + 1 completes it; every other
\* command discards it.
Trip(ch) ==
    IF ch = BS \/ ch = DEL
    THEN IF rt.phase = "inserted" /\ idx = rt.idx + 1
         THEN [rt EXCEPT !.phase = "deleted"]
         ELSE NoTrip
    ELSE [phase |-> "inserted", doc |-> Doc, idx |-> idx]

Kept == IF rt.phase = "inserted" THEN rt ELSE NoTrip

\* A command that only moves the cursor to ix; t is the history it leaves.
MoveTo(k, ix, t) ==
    /\ Command(k)
    /\ idx' = ix
    /\ rt' = t
    /\ UNCHANGED <<mem, ebuf, gap, egap, page, epage, row, col, line, dirty,
                   filename, modeline, written>>

MoveRight ==
    \E k \in {<<CtrlD>>, <<ESC, LBracket, ArrowC>>} :
        MoveTo(k, right(gap, egap, idx), Kept)

MoveLeft ==
    \E k \in {<<CtrlS>>, <<ESC, LBracket, ArrowD>>} : MoveTo(k, left(idx), Kept)

MoveUp ==
    \E k \in {<<CtrlE>>, <<ESC, LBracket, ArrowA>>} :
        MoveTo(k, up(mem, gap, egap, idx, col), NoTrip)

MoveDown ==
    \E k \in {<<CtrlX>>, <<ESC, LBracket, ArrowB>>} :
        MoveTo(k, down(mem, gap, egap, idx, col), NoTrip)

\* case '\014': update_display().
Redraw ==
    /\ Command(<<CtrlL>>)
    /\ LET d == update_display(mem, gap, egap, idx, page, epage, row, col,
                               filename)
       IN  /\ page' = d.page
           /\ epage' = d.epage
           /\ row' = d.row
           /\ col' = d.col
           /\ line' = d.line
           /\ modeline' = d.modeline
    /\ rt' = NoTrip
    /\ UNCHANGED <<mem, ebuf, gap, egap, idx, dirty, filename, written>>

\* default: insert(ch).
Insert ==
    \E ch \in InsertKeys :
        /\ Command(<<ch>>)
        /\ LET r == insert(mem, gap, egap, idx, ch)
           IN  /\ mem' = r.mem
               /\ gap' = r.gap
               /\ egap' = r.egap
               /\ idx' = r.idx
        /\ rt' = Trip(ch)
        /\ UNCHANGED <<ebuf, page, epage, row, col, line, dirty, filename,
                       modeline, written>>

\* ESC s: save_file().
Save ==
    /\ Command(<<ESC, KeyS>>)
    /\ \E typed \in {"", FileName}, opened \in BOOLEAN :
          LET r == save_file(mem, gap, egap, idx, dirty, filename, typed,
                             opened)
          IN  /\ mem' = r.mem
              /\ gap' = r.gap
              /\ egap' = r.egap
              /\ idx' = r.idx
              /\ dirty' = r.dirty
              /\ filename' = r.filename
              /\ written' = r.written
              /\ modeline' = r.modeline
    /\ rt' = NoTrip
    /\ UNCHANGED <<ebuf, page, epage, row, col, line>>

\* ESC v: message("Version 0.8").
Version ==
    /\ Command(<<ESC, KeyV>>)
    /\ modeline' = "Version 0.8"
    /\ rt' = NoTrip
    /\ UNCHANGED <<mem, ebuf, gap, egap, idx, page, epage, row, col, line,
                   dirty, filename, written>>

\* ESC q: done = 1.
Quit ==
    /\ pc = "input"
    /\ key' = <<ESC, KeyQ>>
    /\ pre' = Snap
    /\ rt' = NoTrip
    /\ pc' = "done"
    /\ UNCHANGED <<mem, ebuf, gap, egap, idx, page, epage, row, col, line,
                   dirty, filename, modeline, written>>

Next ==
    \/ UpdateDisplay
    \/ MoveRight
    \/ MoveLeft
    \/ MoveUp
    \/ MoveDown
    \/ Redraw
    \/ Insert
    \/ Save
    \/ Version
    \/ Quit

Spec == Init /\ [][Next]_vars

\* The same program with an arena one byte larger.
InitBig == InitWith(BUF + 1)

SpecBig == InitBig /\ [][Next]_vars

\* ================================================================ claims
StoreKeys == InsertKeys \ {BS, DEL}

\* The latest command was insert(ch) for a byte other than backspace and DEL.
InsertedKey == pc = "display" /\ Len(key) = 1 /\ key[1] \in StoreKeys

\* The latest command was a save_file() that opened its file.
SavedOk == pc = "display" /\ key = <<ESC, KeyS>> /\ modeline = "save ok"

\* C1: an insert of a byte b other than backspace and DEL into a document
\* with a free gap byte, at cursor o, gives doc[0..o) ++ <b'> ++ doc[o..len),
\* b' being newline for a carriage return and b otherwise; the length grows
\* by one and the cursor becomes o + 1, wherever the gap was.
C1_InsertAtCursor ==
    (InsertedKey /\ Len(pre.doc) < ebuf) =>
        /\ Doc = SubSeq(pre.doc, 1, pre.idx)
                    \o <<IF key[1] = CR THEN NL ELSE key[1]>>
                    \o SubSeq(pre.doc, pre.idx + 1, Len(pre.doc))
        /\ DocLen = Len(pre.doc) + 1
        /\ idx = pre.idx + 1

C1_Witness ==
    /\ InsertedKey
    /\ key[1] = CR
    /\ Len(pre.doc) < ebuf
    /\ 0 < pre.idx /\ pre.idx < Len(pre.doc)
    /\ pre.gap # pre.idx
    /\ Doc[idx] = NL

\* C2: movegap to any offset of 0..documentLength leaves the document (and
\* so its length) as it was, in every reachable storage state, and a move
\* to the offset where the gap already is changes nothing at all.
C2_MovegapKeepsDocument ==
    \A o \in 0..DocLen :
        LET r == movegap(mem, gap, egap, o)
        IN  /\ DocOf(r.mem, r.gap, r.egap) = Doc
            /\ r.gap + (ebuf - r.egap) = DocLen
            /\ o = gap => r = [mem |-> mem, gap |-> gap, egap |-> egap,
                               idx |-> o]

\* A save has moved the gap back through live bytes, to the document start.
C2_Witness ==
    /\ SavedOk
    /\ 0 < pre.gap
    /\ pre.gap < Len(pre.doc)
    /\ gap = 0
    /\ Len(pre.doc) < ebuf

\* C3: pos(ptr(o)) = o for every offset o of 0..documentLength, and
\* ptr(pos(a)) = a for every address a of [buf, gap) and of [egap, ebuf].
C3_AddressInverse ==
    /\ \A o \in 0..DocLen : pos(ptr(o, gap, egap), gap, egap) = o
    /\ \A a \in (0..(gap - 1)) \cup (egap..ebuf) :
          ptr(pos(a, gap, egap), gap, egap) = a

\* A full buffer whose empty gap lies between live bytes.
C3_Witness == gap = egap /\ 0 < gap /\ gap < ebuf

\* C4: buf <= gap <= egap <= ebuf in every state, so the document length is
\* in 0..CAPACITY.
C4_StorageInvariant ==
    /\ 0 <= gap
    /\ gap <= egap
    /\ egap <= ebuf
    /\ DocLen \in 0..ebuf

\* An insert into a full buffer whose gap had to be moved.
C4_Witness ==
    /\ InsertedKey
    /\ Len(pre.doc) = ebuf
    /\ pre.gap # pre.idx
    /\ gap = egap

\* C5: 0 <= idx <= documentLength in every state.
C5_CursorInvariant == 0 <= idx /\ idx <= DocLen

\* A move left at the document start.
C5_Witness ==
    /\ pc = "display"
    /\ key = <<CtrlS>>
    /\ pre.idx = 0
    /\ idx = 0
    /\ DocLen = ebuf

\* C6: an insert of a byte other than backspace and DEL into a full buffer
\* (documentLength = CAPACITY) leaves the document and the cursor as they
\* were, whatever the cursor, and shows no message; below CAPACITY the same
\* insert makes the document one byte longer, so that from the empty
\* document exactly CAPACITY inserts succeed.
C6_CapacityCeiling ==
    InsertedKey =>
        IF Len(pre.doc) = ebuf
        THEN /\ idx = pre.idx
             /\ Doc = pre.doc
             /\ modeline \notin {"no filename", "failed open", "save ok",
                                 "Version 0.8"}
        ELSE DocLen = Len(pre.doc) + 1

\* An insert into a full buffer, with the cursor between two bytes and the
\* gap elsewhere.
C6_Witness ==
    /\ InsertedKey
    /\ Len(pre.doc) = ebuf
    /\ 0 < pre.idx /\ pre.idx < ebuf
    /\ pre.gap # pre.idx
    /\ Doc = pre.doc

\* The latest command completed a round trip: it was a delete backward
\* issued at offset o + 1, after an insert at offset o and, possibly, moves
\* left and right.
TripDone == pc = "display" /\ rt.phase = "deleted"

\* C7 as stated: from every reachable state, an insert of a storable byte at
\* offset o and then a delete backward at offset o + 1 restore the document
\* and put the cursor back at o.
C7_RoundTripAlways ==
    TripDone => (Doc = rt.doc /\ idx = rt.idx)

\* C7 amended: from every reachable state with a free gap byte
\* (documentLength < CAPACITY), an insert of a storable byte at offset o and
\* then a delete backward at offset o + 1 restore the document and put the
\* cursor back at o.
C7_RoundTripBelowCapacity ==
    (TripDone /\ Len(rt.doc) < ebuf) => (Doc = rt.doc /\ idx = rt.idx)

\* A round trip made between two bytes of the document.
C7_Witness ==
    /\ TripDone
    /\ Len(rt.doc) < ebuf
    /\ 0 < rt.idx /\ rt.idx < Len(rt.doc)
    /\ pre.idx = rt.idx + 1
    /\ Len(pre.doc) = Len(rt.doc) + 1

\* C8: a save that opens its file writes the document's bytes in logical
\* order, no gap bytes, and leaves the document and the cursor as they were.
C8_SaveWritesDocument ==
    SavedOk =>
        /\ written = pre.doc
        /\ Doc = pre.doc
        /\ idx = pre.idx

\* A save with live bytes on both sides of a gap that is not empty, the
\* cursor not at the document start.
C8_Witness ==
    /\ SavedOk
    /\ 0 < pre.gap /\ pre.gap < Len(pre.doc)
    /\ Len(pre.doc) < ebuf
    /\ 0 < pre.idx
    /\ written = pre.doc

\* C9: after every render cycle the recorded cursor cell is a cell of the
\* grid: 0 <= row < ROW_MAX - 1 and 0 <= col < COL_MAX.
C9_ViewportContainment ==
    pc = "input" =>
        /\ 0 <= row /\ row < ROW_MAX - 1
        /\ 0 <= col /\ col < COL_MAX

\* The latest step was an insert() that stored or removed a byte.
Edited == pc = "input" /\ pc' = "display" /\ Len(key') = 1
          /\ key'[1] \in InsertKeys /\ DocLen' # DocLen

\* C10: an insert that stores a byte and a delete that removes one set the
\* dirty flag, and the flag stays set until a save succeeds.
C10_DirtyFlag ==
    [][/\ Edited => dirty' # 0
       /\ (dirty # 0 /\ ~SavedOk') => dirty' # 0]_vars

\* The number of newline bytes of doc at logical offsets [0, o).
NewlinesBefore(doc, o) == Cardinality({k \in 1..o : doc[k] = NL})

\* C11: after every render cycle the line number reported is 1 plus the
\* number of newlines of the document before the cursor.
C11_LineNumber ==
    pc = "input" => line = 1 + NewlinesBefore(Doc, idx)

\* ---- reference definitions over the document as a byte sequence
\* (offsets count from 0, doc[k + 1] is the byte at offset k) ----
\* A newline lies at an offset >= o.
NewlineFrom(doc, o) == \E k \in (o + 1)..Len(doc) : doc[k] = NL

\* The offset after the first newline at an offset >= o.
NextStart(doc, o) ==
    CHOOSE k \in (o + 1)..Len(doc) :
        doc[k] = NL /\ \A j \in (o + 1)..(k - 1) : doc[j] # NL

\* The end of the line that starts at s: its newline or the document end.
LineEnd(doc, s) ==
    CHOOSE k \in s..Len(doc) :
        /\ k = Len(doc) \/ doc[k + 1] = NL
        /\ \A j \in s..(k - 1) : doc[j + 1] # NL

\* The tab-expanded column of offset k on the line that starts at s.
RECURSIVE ColumnAt(_, _, _)
ColumnAt(doc, s, k) ==
    IF k <= s THEN 0
    ELSE LET c == ColumnAt(doc, s, k - 1)
         IN  IF doc[k] = TAB THEN ((c \div 8) + 1) * 8 ELSE c + 1

\* The first offset of the line at s whose column is >= t, or the line end.
Resolve(doc, s, t) ==
    LET end == LineEnd(doc, s)
    IN  CHOOSE k \in s..end :
            /\ k = end \/ ColumnAt(doc, s, k) >= t
            /\ \A j \in s..(k - 1) : ColumnAt(doc, s, j) < t

DownKeys == {<<CtrlX>>, <<ESC, LBracket, ArrowB>>}
UpKeys == {<<CtrlE>>, <<ESC, LBracket, ArrowA>>}

\* The latest command was down() / up().
MovedDown == pc = "display" /\ key \in DownKeys
MovedUp == pc = "display" /\ key \in UpKeys

\* C12: when a line follows the cursor's line, MoveDown puts the cursor on
\* that line, at its first offset whose tab-expanded column is >= the column
\* the last render recorded, or at its end; the document is unchanged.
C12_MoveDown ==
    (MovedDown /\ NewlineFrom(pre.doc, pre.idx)) =>
        /\ idx = Resolve(pre.doc, NextStart(pre.doc, pre.idx), col)
        /\ Doc = pre.doc

\* A MoveDown from a column > 0 that lands inside the following line.
C12_Witness ==
    /\ MovedDown
    /\ NewlineFrom(pre.doc, pre.idx)
    /\ 0 < col
    /\ NextStart(pre.doc, pre.idx) < idx

\* The 0-based index of the line that holds offset o.
LineIndex(doc, o) == NewlinesBefore(doc, o)

\* C13: when the cursor is not on the first line, MoveUp puts the cursor on
\* the line immediately before the cursor's line: the line index decreases
\* by exactly one; the document is unchanged.
C13_MoveUp ==
    (MovedUp /\ 0 < LineIndex(pre.doc, pre.idx)) =>
        /\ LineIndex(Doc, idx) = LineIndex(pre.doc, pre.idx) - 1
        /\ Doc = pre.doc

LeftKeys == {<<CtrlS>>, <<ESC, LBracket, ArrowD>>}
RightKeys == {<<CtrlD>>, <<ESC, LBracket, ArrowC>>}

\* The latest command was insert() of backspace or DEL, left(), right().
Deleted == pc = "display" /\ Len(key) = 1 /\ key[1] \in {BS, DEL}
MovedLeft == pc = "display" /\ key \in LeftKeys
MovedRight == pc = "display" /\ key \in RightKeys

\* Document and cursor are what the latest command found, and the mode line
\* shows no message.
NothingHappened ==
    Doc = pre.doc /\ idx = pre.idx /\ modeline = update_modeline(filename)

\* C14: a delete at offset 0, a MoveLeft at offset 0 and a MoveRight at the
\* document end leave document and cursor unchanged and report nothing.
C14_HorizontalBoundary ==
    /\ (Deleted /\ pre.idx = 0) => NothingHappened
    /\ (MovedLeft /\ pre.idx = 0) => NothingHappened
    /\ (MovedRight /\ pre.idx = Len(pre.doc)) => NothingHappened

\* A MoveRight at the end of a full buffer.
C14_Witness ==
    MovedRight /\ pre.idx = Len(pre.doc) /\ Len(pre.doc) = ebuf

\* C15: MoveUp on the first line and MoveDown on the last line (no newline
\* at or after the cursor) leave the cursor offset and the document as they
\* were.
C15_VerticalBoundary ==
    /\ (MovedUp /\ LineIndex(pre.doc, pre.idx) = 0) =>
            idx = pre.idx /\ Doc = pre.doc
    /\ (MovedDown /\ ~NewlineFrom(pre.doc, pre.idx)) =>
            idx = pre.idx /\ Doc = pre.doc

\* The reference line start: k + 1 for the greatest offset k < o that holds
\* a newline, 0 if there is none.
RefLineStart(doc, o) ==
    IF \E k \in 1..o : doc[k] = NL
    THEN CHOOSE k \in 1..o : doc[k] = NL /\ \A j \in (k + 1)..o : doc[j] # NL
    ELSE 0

\* C16: for every offset in [0, documentLength], prevline() returns the
\* offset after the last newline before the offset, or 0 if there is none,
\* wherever the gap sits and also for a newline at offset 0.
C16_PrevlineReference ==
    \A o \in 0..DocLen : prevline(mem, gap, egap, o) = RefLineStart(Doc, o)

\* s is the start of a line of doc.
IsLineStart(doc, s) == s = 0 \/ doc[s] = NL

\* The line at s is an ordinary byte, a tab and an ordinary byte ("a\tb").
TabLine(doc, s) ==
    /\ s + 3 <= Len(doc)
    /\ doc[s + 1] = LetterA /\ doc[s + 2] = TAB /\ doc[s + 3] = LetterA

\* adjust() agrees with the reference walk, for every line start and every
\* target column.  Every storage state the editor reaches is the storage
\* state of a frame (pc = "input"): update_display leaves the arena alone.
AdjustIsResolve ==
    pc = "input" =>
        LET doc == Doc
        IN  \A s \in 0..DocLen : IsLineStart(doc, s) =>
                \A t \in 0..COL_MAX :
                    adjust(mem, gap, egap, s, t) = Resolve(doc, s, t)

\* C17 as stated: adjust() returns the first offset at or after the line
\* start whose column counter (1 per byte, next multiple of 8 per tab) has
\* reached the target, or the line's newline, or the document end; and on
\* the line "a\tb" every target column 0..7 resolves to one offset, the one
\* past the tab at column 8.
C17_TabResolutionUniform ==
    /\ AdjustIsResolve
    /\ \A s \in 0..DocLen :
          (pc = "input" /\ IsLineStart(Doc, s) /\ TabLine(Doc, s)) =>
          \A t \in 0..7 : adjust(mem, gap, egap, s, t) = s + 2

\* C17, amended: the same walk; on the line "a\tb" target 0 resolves to the
\* line start, target 1 to the tab's offset and targets 2..8 to the offset
\* past the tab, where the counter is 8.
C17_AdjustReference ==
    /\ AdjustIsResolve
    /\ \A s \in 0..DocLen :
          (pc = "input" /\ IsLineStart(Doc, s) /\ TabLine(Doc, s)) =>
          /\ adjust(mem, gap, egap, s, 0) = s
          /\ adjust(mem, gap, egap, s, 1) = s + 1
          /\ \A t \in 2..8 : adjust(mem, gap, egap, s, t) = s + 2
          /\ ColumnAt(Doc, s, s + 2) = 8

\* The document is the line "a\tb" and a target inside the tab resolves
\* past it.
C17_Witness ==
    pc = "input" /\ TabLine(Doc, 0) /\ adjust(mem, gap, egap, 0, 5) = 2

\* The step is a call of update_display(): the one at the top of the loop or
\* the one of the redraw command.
Rendering ==
    \/ pc = "display" /\ pc' = "input"
    \/ pc = "input" /\ key' = <<CtrlL>>

\* C18: a render cycle that takes the branch epage <= idx computes a page
\* from which its render pass reaches the cursor's offset (page <= idx <=
\* epage afterwards) and records it at a row in 0 .. ROW_MAX - 2.
C18_ScrollDownShowsCursor ==
    [][(Rendering /\ epage <= idx) =>
          /\ page' <= idx /\ idx <= epage'
          /\ 0 <= row' /\ row' < ROW_MAX - 1]_vars

\* The bytes main's switch takes as InsertByte, DeleteBackward and the four
\* moves.
CommandBytes == InsertKeys \cup {CtrlD, CtrlE, CtrlS, CtrlX}

\* main's switch on one byte ch, for storage m, g, e, cursor ix and recorded
\* column c: the storage and the cursor after the command.
Dispatch(m, g, e, ix, c, ch) ==
    CASE ch = CtrlD -> [mem |-> m, gap |-> g, egap |-> e, idx |-> right(g, e, ix)]
      [] ch = CtrlE -> [mem |-> m, gap |-> g, egap |-> e, idx |-> up(m, g, e, ix, c)]
      [] ch = CtrlS -> [mem |-> m, gap |-> g, egap |-> e, idx |-> left(ix)]
      [] ch = CtrlX -> [mem |-> m, gap |-> g, egap |-> e, idx |-> down(m, g, e, ix, c)]
      [] OTHER -> insert(m, g, e, ix, ch)

\* What the command ch followed by a render cycle yields: document, cursor,
\* page, cursor cell and grid.
Outcome(m, g, e, ix, pg, ep, r, c, ch) ==
    LET st == Dispatch(m, g, e, ix, c, ch)
        d  == update_display(st.mem, st.gap, st.egap, st.idx, pg, ep, r, c,
                             filename)
    IN  [doc |-> DocOf(st.mem, st.gap, st.egap), idx |-> st.idx,
         page |-> d.page, epage |-> d.epage, row |-> d.row, col |-> d.col,
         screen |-> Paint(Blank, d.writes)]

\* C19: two reachable states with the same document, cursor, page, epage and
\* column but different gap positions yield the same document, cursor, page,
\* epage, cursor cell and grid under the same command and a render cycle.
\* The two states are a frame and the frame after a successful save_file()
\* issued there, which moves the gap to the arena start and changes neither
\* document nor cursor.
C19_GapIndependence ==
    pc = "input" =>
        LET s == movegap(mem, gap, egap, 0)
            d == update_display(s.mem, s.gap, s.egap, idx, page, epage, row,
                                col, filename)
        IN  (/\ s.gap # gap
             /\ d.page = page /\ d.epage = epage /\ d.col = col) =>
                \A ch \in CommandBytes :
                    Outcome(mem, gap, egap, idx, page, epage, row, col, ch)
                        = Outcome(s.mem, s.gap, s.egap, idx, d.page, d.epage,
                                  d.row, d.col, ch)

\* The stores into screen of the latest frame, each <<row, column, count,
\* byte>>: count cells from column on.
FrameWrites ==
    Render(mem, gap, egap, idx, 0, 0, page, row, col, << >>).writes

\* C20: every cell the render pass writes has its row in 0 .. ROW_MAX - 2
\* and its column in 0 .. COL_MAX - 1.
C20_WritesInBounds ==
    pc = "input" =>
        \A k \in 1..Len(FrameWrites) :
            LET w == FrameWrites[k]
            IN  /\ 0 <= w[1] /\ w[1] < ROW_MAX - 1
                /\ 0 <= w[2] /\ w[2] + w[3] - 1 < COL_MAX

====
